---- MODULE Spec2Model ----
(***************************************************************************)
(* A model of MTRingBuffer (src/RingBuffer/MTRingBuffer.cpp, .hpp): a      *)
(* fixed-capacity ring of byte slots guarded by one QMutex and two         *)
(* QWaitConditions, with blocking and non-blocking insert and read.        *)
(*                                                                         *)
(* The members of the class are the variables m..., one action models     *)
(* each step a thread takes: taking the mutex (QMutexLocker), the locked   *)
(* body of each of the four methods up to its return or up to its         *)
(* QWaitCondition::wait, and the wake-up of a waiter.                      *)
(***************************************************************************)
EXTENDS Integers, Sequences, FiniteSets, TLC

\* ---------------------------------------------------------------- bounds
MaxSlotSize == 2
MaxNumSlots == 3
NumThreads == 3
MaxVal == 1
MaxProduced == 5
MaxSpurious == 2

Threads == 1..NumThreads
NoThread == 0
Values == 1..MaxVal

VARIABLES
    mSlotSize,          \* const int mSlotSize
    mNumSlots,          \* const int mNumSlots
    mTotalSize,         \* const int mTotalSize
    mReadPosition,      \* int mReadPosition
    mWritePosition,     \* int mWritePosition
    mFullSlots,         \* int mFullSlots
    mRingBuffer,        \* byte* mRingBuffer: [0..mTotalSize-1 -> byte]
    mLastReadSlot,      \* byte* mLastReadSlot: [0..mSlotSize-1 -> byte]
    mMutex,             \* QMutex: the thread holding it, or NoThread
    mBufferIsNotFull,   \* QWaitCondition: the threads parked on it
    mBufferIsNotEmpty,  \* QWaitCondition: the threads parked on it
    pc,                 \* where each thread is
    ptrToReadSlot,      \* the output buffer of the call in progress or just returned
    waited,             \* threads whose current blocking call has parked
    seen,               \* per thread: what happened since it last parked
    written,            \* slot indexes holding a slot stored by an insert, not yet consumed
    lastReturned,       \* the slot the latest successful read gave its caller
    event,              \* the call that returned in the latest step, if one did
    pristine,           \* no call has returned since the constructor
    producedCount,      \* single producer: insert calls that returned
    delivered,          \* single consumer: the producer's slots it was given
    storedLog,          \* single producer: the slots its inserts stored, in order
    returned,           \* single consumer: the slots its reads took out, in order
    spuriousCount,      \* wake-ups without a wakeAll so far (fair specification)
    runPhase,           \* sequential caller: position in an inserts-then-reads run
    runBase,            \* mFullSlots before the run's first insert
    runIns,             \* the slots the run inserted
    runReads            \* the slots the run's reads returned

bufVars == <<mSlotSize, mNumSlots, mTotalSize, mReadPosition, mWritePosition,
             mFullSlots, mRingBuffer, mLastReadSlot>>
syncVars == <<mMutex, mBufferIsNotFull, mBufferIsNotEmpty, pc>>
obsVars == <<ptrToReadSlot, waited, seen, written, lastReturned, event, pristine>>
spscVars == <<producedCount, delivered, storedLog, returned>>
fairVars == <<spuriousCount>>
runVars == <<runPhase, runBase, runIns, runReads>>
vars == <<bufVars, syncVars, obsVars, spscVars, runVars, fairVars>>

\* ------------------------------------------------------------ byte blocks
\* A block of n bytes is a function on 0..n-1.
Unwritten == 255

\* std::memset(dst, val, n)
Memset(dst, val, n) ==
    [i \in DOMAIN dst |-> IF i < n THEN val ELSE dst[i]]

\* std::memcpy(dst + dstOff, src + srcOff, n)
Memcpy(dst, dstOff, src, srcOff, n) ==
    [i \in DOMAIN dst |->
        IF dstOff <= i /\ i < dstOff + n THEN src[srcOff + (i - dstOff)] ELSE dst[i]]

\* new byte[n]: contents indeterminate until the constructor's memset
NewBytes(n) == [i \in 0..(n - 1) |-> Unwritten]

ZeroSlot(n) == [i \in 0..(n - 1) |-> 0]

\* The caller's slot number v: non-zero bytes, different for different v.
MakeSlot(v, n) == [i \in 0..(n - 1) |-> v + i]

\* ------------------------------------------------------------ constructor
Ops == {"IB", "RB", "INB", "RNB"}

NoEvent == [kind |-> "none", op |-> "none", waited |-> FALSE, seen |-> {}, fresh |-> FALSE]

\* A constructor that advances the write position and leaves mFullSlots at 0.
Construct_CountNotSeeded(SlotSize, NumSlots) ==
    /\ mSlotSize = SlotSize
    /\ mNumSlots = NumSlots
    /\ mTotalSize = SlotSize * NumSlots
    /\ mReadPosition = 0
    /\ mRingBuffer = Memset(NewBytes(SlotSize * NumSlots), 0, SlotSize * NumSlots)
    /\ mLastReadSlot = Memset(NewBytes(SlotSize), 0, SlotSize)
    /\ mWritePosition = ((NumSlots \div 2) * SlotSize) % (SlotSize * NumSlots)
    /\ mFullSlots = 0

\* MTRingBuffer::MTRingBuffer(int SlotSize, int NumSlots)
Construct(SlotSize, NumSlots) ==
    /\ mSlotSize = SlotSize
    /\ mNumSlots = NumSlots
    /\ mTotalSize = SlotSize * NumSlots
    /\ mReadPosition = 0
    /\ mRingBuffer = Memset(NewBytes(SlotSize * NumSlots), 0, SlotSize * NumSlots)
    /\ mLastReadSlot = Memset(NewBytes(SlotSize), 0, SlotSize)
    /\ mWritePosition = ((NumSlots \div 2) * SlotSize) % (SlotSize * NumSlots)
    /\ mFullSlots = NumSlots \div 2

Init ==
    /\ \E SlotSize \in 1..MaxSlotSize, NumSlots \in 1..MaxNumSlots :
          Construct(SlotSize, NumSlots)
    /\ mMutex = NoThread
    /\ mBufferIsNotFull = {}
    /\ mBufferIsNotEmpty = {}
    /\ pc = [t \in Threads |-> "idle"]
    /\ ptrToReadSlot = NewBytes(mSlotSize)
    /\ waited = {}
    /\ seen = [t \in Threads |-> {}]
    /\ written = {}
    /\ lastReturned = <<>>
    /\ event = NoEvent
    /\ pristine = TRUE
    /\ producedCount = 0
    /\ delivered = <<>>
    /\ storedLog = <<>>
    /\ returned = <<>>
    /\ spuriousCount = 0
    /\ runPhase = "none"
    /\ runBase = 0
    /\ runIns = <<>>
    /\ runReads = <<>>

\* ------------------------------------------------- pieces of the methods
\* mFullSlots == mNumSlots (lines 59, 108)
BufferIsFull == mFullSlots = mNumSlots

\* mFullSlots == 0 (lines 81, 133)
BufferIsEmpty == mFullSlots = 0

\* A position advanced by one byte instead of one slot.
NextPosition_OneByte(pos) == (pos + 1) % mTotalSize

\* (pos + mSlotSize) % mTotalSize (lines 67, 92, 117, 146)
NextPosition(pos) == (pos + mSlotSize) % mTotalSize

\* mNumSlots/2 (lines 169, 170)
HalfSlots == mNumSlots \div 2

\* The slot index of a byte offset.
SlotIndex(pos) == pos \div mSlotSize

\* A wakeAll() that makes no waiter runnable.
WakeAll_Nobody(cond, woken, t) ==
    [u \in Threads |-> IF u = t THEN "idle" ELSE pc[u]]

\* The threads a wait condition's wakeAll() makes runnable again.
WakeAll(cond, woken, t) ==
    [u \in Threads |-> IF u = t THEN "idle"
                       ELSE IF u \in cond THEN woken
                       ELSE pc[u]]

\* Which waiters an outcome matters to: a read or an overflow recovery to
\* the threads waiting in insertSlotBlocking, a stored slot to those waiting
\* in readSlotBlocking.
Concerns(u, kind) ==
    \/ kind \in {"read", "overflow"} /\ pc[u] \in {"waitNotFull", "wokenNotFull"}
    \/ kind = "stored" /\ pc[u] \in {"waitNotEmpty", "wokenNotEmpty"}

\* The caller t returns with outcome kind: the record of the call, and the
\* note of it for every thread still inside a blocking call that has parked.
Return(t, op, kind, fresh) ==
    /\ event' = [kind |-> kind, op |-> op, waited |-> (t \in waited),
                 seen |-> seen[t], fresh |-> fresh]
    /\ waited' = waited \ {t}
    /\ seen' = [u \in Threads |->
                  IF u = t THEN {}
                  ELSE IF u \in waited /\ Concerns(u, kind) THEN seen[u] \cup {kind}
                  ELSE seen[u]]
    /\ pristine' = FALSE
    /\ mMutex' = NoThread

\* The slots a series of reads would return now, oldest first: mFullSlots
\* slots of mSlotSize bytes from mReadPosition on, wrapping at mTotalSize
\* (lines 86, 92, 93 and 140, 146, 147).
Readable ==
    [k \in 1..mFullSlots |->
        [i \in 0..(mSlotSize - 1) |->
            mRingBuffer[(mReadPosition + (k - 1) * mSlotSize + i) % mTotalSize]]]

\* Lines 64-68 and 114-118: copy the caller's slot in, advance, count.
StoreSlot(slot) ==
    /\ mRingBuffer' = Memcpy(mRingBuffer, mWritePosition, slot, 0, mSlotSize)
    /\ mWritePosition' = NextPosition(mWritePosition)
    /\ mFullSlots' = mFullSlots + 1
    /\ written' = written \cup {SlotIndex(mWritePosition)}
    /\ UNCHANGED <<mSlotSize, mNumSlots, mTotalSize, mReadPosition, mLastReadSlot,
                   ptrToReadSlot, lastReturned>>

\* The copy into mLastReadSlot left out.
SaveLastReadSlot_Skipped == mLastReadSlot

\* std::memcpy(mLastReadSlot, mRingBuffer + mReadPosition, mSlotSize) (lines 89, 143)
SaveLastReadSlot == Memcpy(mLastReadSlot, 0, mRingBuffer, mReadPosition, mSlotSize)

\* Lines 86-93 and 140-147: copy the slot out twice, advance, count.
TakeSlot ==
    /\ ptrToReadSlot' = Memcpy(ptrToReadSlot, 0, mRingBuffer, mReadPosition, mSlotSize)
    /\ mLastReadSlot' = SaveLastReadSlot
    /\ mReadPosition' = NextPosition(mReadPosition)
    /\ mFullSlots' = mFullSlots - 1
    /\ written' = written \ {SlotIndex(mReadPosition)}
    /\ lastReturned' = ptrToReadSlot'
    /\ UNCHANGED <<mSlotSize, mNumSlots, mTotalSize, mWritePosition, mRingBuffer>>

\* MTRingBuffer::setUnderrunReadSlot
setUnderrunReadSlot(buf) == Memset(buf, 0, mSlotSize)

\* A reset that clears one slot instead of the whole buffer.
underrunReset_OneSlot ==
    mRingBuffer' = Memset(mRingBuffer, 0, mSlotSize)

\* MTRingBuffer::underrunReset
underrunReset ==
    mRingBuffer' = Memset(mRingBuffer, 0, mTotalSize)

\* A reset that advances the read position by slots, not by bytes.
overflowReset_Unscaled ==
    /\ mReadPosition' = (mReadPosition + HalfSlots) % mTotalSize
    /\ mFullSlots' = mFullSlots - HalfSlots
    /\ written' = written \
          {(SlotIndex(mReadPosition) + k) % mNumSlots : k \in 0..(HalfSlots - 1)}

\* A reset that advances the read position and forgets the count.
overflowReset_KeepCount ==
    /\ mReadPosition' = (mReadPosition + (HalfSlots * mSlotSize)) % mTotalSize
    /\ mFullSlots' = mFullSlots
    /\ written' = written \
          {(SlotIndex(mReadPosition) + k) % mNumSlots : k \in 0..(HalfSlots - 1)}

\* A reset that lowers the count and leaves the read position: it gives up
\* the newest slots instead of the oldest.
overflowReset_KeepPosition ==
    /\ mReadPosition' = mReadPosition
    /\ mFullSlots' = mFullSlots - HalfSlots
    /\ written' = written \
          {(SlotIndex(mWritePosition) + mNumSlots - 1 - k) % mNumSlots : k \in 0..(HalfSlots - 1)}

\* MTRingBuffer::overflowReset
overflowReset ==
    /\ mReadPosition' = (mReadPosition + (HalfSlots * mSlotSize)) % mTotalSize
    /\ mFullSlots' = mFullSlots - HalfSlots
    /\ written' = written \
          {(SlotIndex(mReadPosition) + k) % mNumSlots : k \in 0..(HalfSlots - 1)}

\* QWaitCondition::wait(&mMutex): park on cond and release the mutex.
Wait(t, parked) ==
    /\ pc' = [pc EXCEPT ![t] = parked]
    /\ mMutex' = NoThread
    /\ waited' = waited \cup {t}
    /\ seen' = [seen EXCEPT ![t] = {}]
    /\ event' = NoEvent
    /\ UNCHANGED <<bufVars, ptrToReadSlot, written, lastReturned, pristine>>

\* -------------------------------------------------------------- actions
\* QMutexLocker locker(&mMutex) of method op (lines 55, 77, 102, 127)
Lock(t, op) ==
    /\ pc[t] = "idle"
    /\ mMutex = NoThread
    /\ mMutex' = t
    /\ pc' = [pc EXCEPT ![t] = op]
    /\ ptrToReadSlot' = NewBytes(mSlotSize)
    /\ event' = NoEvent
    /\ UNCHANGED <<bufVars, mBufferIsNotFull, mBufferIsNotEmpty,
                   waited, seen, written, lastReturned, pristine>>

\* insertSlotBlocking with "if" for "while": a woken caller does not test again.
insertSlotBlocking_NoRetest(t, slot) ==
    /\ pc[t] = "IB"
    /\ mMutex = t
    /\ IF BufferIsFull /\ t \notin waited
       THEN /\ Wait(t, "waitNotFull")
            /\ mBufferIsNotFull' = mBufferIsNotFull \cup {t}
            /\ UNCHANGED mBufferIsNotEmpty
       ELSE /\ StoreSlot(slot)
            /\ pc' = WakeAll(mBufferIsNotEmpty, "wokenNotEmpty", t)
            /\ mBufferIsNotEmpty' = {}
            /\ Return(t, "IB", "stored", FALSE)
            /\ UNCHANGED mBufferIsNotFull

\* MTRingBuffer::insertSlotBlocking, from the loop test to the wait or the return
insertSlotBlocking(t, slot) ==
    /\ pc[t] = "IB"
    /\ mMutex = t
    /\ IF BufferIsFull
       THEN /\ Wait(t, "waitNotFull")
            /\ mBufferIsNotFull' = mBufferIsNotFull \cup {t}
            /\ UNCHANGED mBufferIsNotEmpty
       ELSE /\ StoreSlot(slot)
            /\ pc' = WakeAll(mBufferIsNotEmpty, "wokenNotEmpty", t)
            /\ mBufferIsNotEmpty' = {}
            /\ Return(t, "IB", "stored", FALSE)
            /\ UNCHANGED mBufferIsNotFull

\* readSlotBlocking with "if" for "while": a woken caller does not test again.
readSlotBlocking_NoRetest(t) ==
    /\ pc[t] = "RB"
    /\ mMutex = t
    /\ IF BufferIsEmpty /\ t \notin waited
       THEN /\ Wait(t, "waitNotEmpty")
            /\ mBufferIsNotEmpty' = mBufferIsNotEmpty \cup {t}
            /\ UNCHANGED mBufferIsNotFull
       ELSE /\ TakeSlot
            /\ pc' = WakeAll(mBufferIsNotFull, "wokenNotFull", t)
            /\ mBufferIsNotFull' = {}
            /\ Return(t, "RB", "read", SlotIndex(mReadPosition) \in written)
            /\ UNCHANGED mBufferIsNotEmpty

\* MTRingBuffer::readSlotBlocking, from the loop test to the wait or the return
readSlotBlocking(t) ==
    /\ pc[t] = "RB"
    /\ mMutex = t
    /\ IF BufferIsEmpty
       THEN /\ Wait(t, "waitNotEmpty")
            /\ mBufferIsNotEmpty' = mBufferIsNotEmpty \cup {t}
            /\ UNCHANGED mBufferIsNotFull
       ELSE /\ TakeSlot
            /\ pc' = WakeAll(mBufferIsNotFull, "wokenNotFull", t)
            /\ mBufferIsNotFull' = {}
            /\ Return(t, "RB", "read", SlotIndex(mReadPosition) \in written)
            /\ UNCHANGED mBufferIsNotEmpty

\* insertSlotNonBlocking without the "return" after overflowReset(): the
\* caller's slot is stored after the recovery.
insertSlotNonBlocking_NoReturn(t, slot) ==
    /\ pc[t] = "INB"
    /\ mMutex = t
    /\ IF BufferIsFull
       THEN /\ mReadPosition' = (mReadPosition + (HalfSlots * mSlotSize)) % mTotalSize
            /\ mFullSlots' = (mFullSlots - HalfSlots) + 1
            /\ mRingBuffer' = Memcpy(mRingBuffer, mWritePosition, slot, 0, mSlotSize)
            /\ mWritePosition' = NextPosition(mWritePosition)
            /\ written' = (written \
                  {(SlotIndex(mReadPosition) + k) % mNumSlots : k \in 0..(HalfSlots - 1)})
                  \cup {SlotIndex(mWritePosition)}
            /\ pc' = WakeAll(mBufferIsNotEmpty, "wokenNotEmpty", t)
            /\ mBufferIsNotEmpty' = {}
            /\ Return(t, "INB", "overflow", FALSE)
            /\ UNCHANGED <<mSlotSize, mNumSlots, mTotalSize, mLastReadSlot,
                           ptrToReadSlot, lastReturned, mBufferIsNotFull>>
       ELSE /\ StoreSlot(slot)
            /\ pc' = WakeAll(mBufferIsNotEmpty, "wokenNotEmpty", t)
            /\ mBufferIsNotEmpty' = {}
            /\ Return(t, "INB", "stored", FALSE)
            /\ UNCHANGED mBufferIsNotFull

\* MTRingBuffer::insertSlotNonBlocking
insertSlotNonBlocking(t, slot) ==
    /\ pc[t] = "INB"
    /\ mMutex = t
    /\ IF BufferIsFull
       THEN /\ overflowReset
            /\ pc' = [pc EXCEPT ![t] = "idle"]
            /\ Return(t, "INB", "overflow", FALSE)
            /\ UNCHANGED <<mSlotSize, mNumSlots, mTotalSize, mWritePosition, mRingBuffer,
                           mLastReadSlot, ptrToReadSlot, lastReturned,
                           mBufferIsNotFull, mBufferIsNotEmpty>>
       ELSE /\ StoreSlot(slot)
            /\ pc' = WakeAll(mBufferIsNotEmpty, "wokenNotEmpty", t)
            /\ mBufferIsNotEmpty' = {}
            /\ Return(t, "INB", "stored", FALSE)
            /\ UNCHANGED mBufferIsNotFull

\* readSlotNonBlocking without the "return" after underrunReset(): the
\* read goes on to take a slot from the empty buffer.
readSlotNonBlocking_NoReturn(t) ==
    /\ pc[t] = "RNB"
    /\ mMutex = t
    /\ IF BufferIsEmpty
       THEN /\ ptrToReadSlot' = ZeroSlot(mSlotSize)
            /\ mRingBuffer' = Memset(mRingBuffer, 0, mTotalSize)
            /\ mLastReadSlot' = ZeroSlot(mSlotSize)
            /\ mReadPosition' = NextPosition(mReadPosition)
            /\ mFullSlots' = mFullSlots - 1
            /\ pc' = WakeAll(mBufferIsNotFull, "wokenNotFull", t)
            /\ mBufferIsNotFull' = {}
            /\ Return(t, "RNB", "underrun", FALSE)
            /\ UNCHANGED <<mSlotSize, mNumSlots, mTotalSize, mWritePosition,
                           written, lastReturned, mBufferIsNotEmpty>>
       ELSE /\ TakeSlot
            /\ pc' = WakeAll(mBufferIsNotFull, "wokenNotFull", t)
            /\ mBufferIsNotFull' = {}
            /\ Return(t, "RNB", "read", SlotIndex(mReadPosition) \in written)
            /\ UNCHANGED mBufferIsNotEmpty

\* readSlotNonBlocking that waits for a slot on an empty buffer, as the
\* blocking read does.
readSlotNonBlocking_Waits(t) ==
    /\ pc[t] = "RNB"
    /\ mMutex = t
    /\ IF BufferIsEmpty
       THEN /\ Wait(t, "waitNotEmpty")
            /\ mBufferIsNotEmpty' = mBufferIsNotEmpty \cup {t}
            /\ UNCHANGED mBufferIsNotFull
       ELSE /\ TakeSlot
            /\ pc' = WakeAll(mBufferIsNotFull, "wokenNotFull", t)
            /\ mBufferIsNotFull' = {}
            /\ Return(t, "RNB", "read", SlotIndex(mReadPosition) \in written)
            /\ UNCHANGED mBufferIsNotEmpty

\* MTRingBuffer::readSlotNonBlocking
readSlotNonBlocking(t) ==
    /\ pc[t] = "RNB"
    /\ mMutex = t
    /\ IF BufferIsEmpty
       THEN /\ ptrToReadSlot' = setUnderrunReadSlot(ptrToReadSlot)
            /\ underrunReset
            /\ pc' = [pc EXCEPT ![t] = "idle"]
            /\ Return(t, "RNB", "underrun", FALSE)
            /\ UNCHANGED <<mSlotSize, mNumSlots, mTotalSize, mReadPosition, mWritePosition,
                           mFullSlots, mLastReadSlot, written, lastReturned,
                           mBufferIsNotFull, mBufferIsNotEmpty>>
       ELSE /\ TakeSlot
            /\ pc' = WakeAll(mBufferIsNotFull, "wokenNotFull", t)
            /\ mBufferIsNotFull' = {}
            /\ Return(t, "RNB", "read", SlotIndex(mReadPosition) \in written)
            /\ UNCHANGED mBufferIsNotEmpty

\* A waiter leaves QWaitCondition::wait without a wakeAll (the loops at
\* lines 59-61 and 81-83 re-test their guard for this reason).
SpuriousWakeup(t) ==
    /\ pc[t] \in {"waitNotFull", "waitNotEmpty"}
    /\ pc' = [pc EXCEPT ![t] = IF pc[t] = "waitNotFull" THEN "wokenNotFull"
                                ELSE "wokenNotEmpty"]
    /\ mBufferIsNotFull' = mBufferIsNotFull \ {t}
    /\ mBufferIsNotEmpty' = mBufferIsNotEmpty \ {t}
    /\ event' = NoEvent
    /\ UNCHANGED <<bufVars, mMutex, ptrToReadSlot, waited, seen, written, lastReturned,
                   pristine>>

\* A wait that ends without taking the mutex again: the woken waiter goes
\* straight back to its loop test.
Relock_NoMutex(t) ==
    /\ pc[t] \in {"wokenNotFull", "wokenNotEmpty"}
    /\ pc' = [pc EXCEPT ![t] = IF pc[t] = "wokenNotFull" THEN "IB" ELSE "RB"]
    /\ event' = NoEvent
    /\ UNCHANGED <<bufVars, mMutex, mBufferIsNotFull, mBufferIsNotEmpty,
                   ptrToReadSlot, waited, seen, written, lastReturned, pristine>>

\* The end of QWaitCondition::wait: a woken waiter takes the mutex again and
\* is back at its loop test.
Relock(t) ==
    /\ pc[t] \in {"wokenNotFull", "wokenNotEmpty"}
    /\ mMutex = NoThread
    /\ mMutex' = t
    /\ pc' = [pc EXCEPT ![t] = IF pc[t] = "wokenNotFull" THEN "IB" ELSE "RB"]
    /\ event' = NoEvent
    /\ UNCHANGED <<bufVars, mBufferIsNotFull, mBufferIsNotEmpty,
                   ptrToReadSlot, waited, seen, written, lastReturned, pristine>>

\* ------------------------------------------- any threads, any operations
Call == \E t \in Threads, op \in Ops : Lock(t, op) /\ UNCHANGED <<spscVars, runVars, fairVars>>

InsertBlocking ==
    \E t \in Threads, v \in Values :
        insertSlotBlocking(t, MakeSlot(v, mSlotSize)) /\ UNCHANGED <<spscVars, runVars, fairVars>>

ReadBlocking == \E t \in Threads : readSlotBlocking(t) /\ UNCHANGED <<spscVars, runVars, fairVars>>

InsertNonBlocking ==
    \E t \in Threads, v \in Values :
        insertSlotNonBlocking(t, MakeSlot(v, mSlotSize)) /\ UNCHANGED <<spscVars, runVars, fairVars>>

ReadNonBlocking == \E t \in Threads : readSlotNonBlocking(t) /\ UNCHANGED <<spscVars, runVars, fairVars>>

Spurious == \E t \in Threads : SpuriousWakeup(t) /\ UNCHANGED <<spscVars, runVars, fairVars>>

Reacquire == \E t \in Threads : Relock(t) /\ UNCHANGED <<spscVars, runVars, fairVars>>

Next ==
    \/ Call
    \/ InsertBlocking
    \/ ReadBlocking
    \/ InsertNonBlocking
    \/ ReadNonBlocking
    \/ Spurious
    \/ Reacquire

Spec == Init /\ [][Next]_vars

\* ------------------------------------ one producer and one consumer thread
Producer == 1
Consumer == 2

\* The producer's k-th insert call passes slot number k: distinct, non-zero.
ProducerSlot == MakeSlot(producedCount + 1, mSlotSize)

\* The producer's insert call returned: it has used up its slot.
Produced(t) == IF pc'[t] = "idle" THEN producedCount + 1 ELSE producedCount

\* The consumer's read call returned: the slot it was given, when it is one
\* of the producer's (the pre-seeded slots and the underrun fill are zero).
Delivered(t) ==
    IF pc'[t] = "idle" /\ ptrToReadSlot' # ZeroSlot(mSlotSize)
    THEN Append(delivered, ptrToReadSlot')
    ELSE delivered

\* The producer's insert call returned having stored its slot.
Stored(t, slot) ==
    IF pc'[t] = "idle" /\ event'.kind = "stored"
    THEN Append(storedLog, slot)
    ELSE storedLog

\* The consumer's read call returned with a slot taken out of the buffer.
Returned(t) ==
    IF pc'[t] = "idle" /\ event'.kind = "read"
    THEN Append(returned, ptrToReadSlot')
    ELSE returned

PCall ==
    /\ producedCount < MaxProduced
    /\ \E op \in {"IB", "INB"} : Lock(Producer, op)
    /\ UNCHANGED <<spscVars, runVars, fairVars>>

PInsertBlocking ==
    /\ insertSlotBlocking(Producer, ProducerSlot)
    /\ producedCount' = Produced(Producer)
    /\ storedLog' = Stored(Producer, ProducerSlot)
    /\ UNCHANGED <<delivered, returned, runVars, fairVars>>

PInsertNonBlocking ==
    /\ insertSlotNonBlocking(Producer, ProducerSlot)
    /\ producedCount' = Produced(Producer)
    /\ storedLog' = Stored(Producer, ProducerSlot)
    /\ UNCHANGED <<delivered, returned, runVars, fairVars>>

CCall ==
    /\ \E op \in {"RB", "RNB"} : Lock(Consumer, op)
    /\ UNCHANGED <<spscVars, runVars, fairVars>>

CReadBlocking ==
    /\ readSlotBlocking(Consumer)
    /\ delivered' = Delivered(Consumer)
    /\ returned' = Returned(Consumer)
    /\ UNCHANGED <<producedCount, storedLog, runVars, fairVars>>

CReadNonBlocking ==
    /\ readSlotNonBlocking(Consumer)
    /\ delivered' = Delivered(Consumer)
    /\ returned' = Returned(Consumer)
    /\ UNCHANGED <<producedCount, storedLog, runVars, fairVars>>

NextSPSC ==
    \/ PCall
    \/ PInsertBlocking
    \/ PInsertNonBlocking
    \/ CCall
    \/ CReadBlocking
    \/ CReadNonBlocking
    \/ Spurious
    \/ Reacquire

SpecSPSC == Init /\ [][NextSPSC]_vars

\* ----------------------------------- one caller, one call after the other
Caller == 1

\* A run is a series of inserts that found space followed by reads with no
\* insert in between. The run ends with the read that empties the buffer.
NoRun ==
    /\ runPhase' = "none"
    /\ runBase' = 0
    /\ runIns' = <<>>
    /\ runReads' = <<>>

RunInsert(slot) ==
    IF pc'[Caller] # "idle" THEN UNCHANGED runVars
    ELSE IF event'.kind = "stored"
    THEN IF runPhase = "inserting"
         THEN /\ runIns' = Append(runIns, slot)
              /\ UNCHANGED <<runPhase, runBase, runReads>>
         ELSE /\ runPhase' = "inserting"
              /\ runBase' = mFullSlots
              /\ runIns' = <<slot>>
              /\ runReads' = <<>>
    ELSE NoRun

RunRead ==
    IF pc'[Caller] # "idle" THEN UNCHANGED runVars
    ELSE IF event'.kind = "read"
            /\ runPhase \in {"inserting", "reading"}
            /\ Len(runReads) < runBase + Len(runIns)
    THEN /\ runPhase' = "reading"
         /\ runReads' = Append(runReads, ptrToReadSlot')
         /\ UNCHANGED <<runBase, runIns>>
    ELSE NoRun

SCall ==
    /\ \E op \in Ops : (op \in {"IB", "INB"} => producedCount < MaxProduced)
                       /\ Lock(Caller, op)
    /\ UNCHANGED <<spscVars, runVars, fairVars>>

SInsertBlocking ==
    /\ insertSlotBlocking(Caller, ProducerSlot)
    /\ producedCount' = Produced(Caller)
    /\ storedLog' = Stored(Caller, ProducerSlot)
    /\ RunInsert(ProducerSlot)
    /\ UNCHANGED <<delivered, returned, fairVars>>

SInsertNonBlocking ==
    /\ insertSlotNonBlocking(Caller, ProducerSlot)
    /\ producedCount' = Produced(Caller)
    /\ storedLog' = Stored(Caller, ProducerSlot)
    /\ RunInsert(ProducerSlot)
    /\ UNCHANGED <<delivered, returned, fairVars>>

SReadBlocking ==
    /\ readSlotBlocking(Caller)
    /\ returned' = Returned(Caller)
    /\ RunRead
    /\ UNCHANGED <<producedCount, delivered, storedLog, fairVars>>

SReadNonBlocking ==
    /\ readSlotNonBlocking(Caller)
    /\ returned' = Returned(Caller)
    /\ RunRead
    /\ UNCHANGED <<producedCount, delivered, storedLog, fairVars>>

NextSeq ==
    \/ SCall
    \/ SInsertBlocking
    \/ SInsertNonBlocking
    \/ SReadBlocking
    \/ SReadNonBlocking
    \/ Spurious
    \/ Reacquire

SpecSeq == Init /\ [][NextSeq]_vars

\* ------------------ one producer and one consumer using the blocking calls
\* Thread Producer uses insertSlotBlocking only, thread Consumer
\* readSlotBlocking only; the producer's slots are numbered as above.
BPCall ==
    /\ producedCount < MaxProduced
    /\ Lock(Producer, "IB")
    /\ UNCHANGED <<spscVars, runVars, fairVars>>

BCCall ==
    /\ Lock(Consumer, "RB")
    /\ UNCHANGED <<spscVars, runVars, fairVars>>

NextBlocking ==
    \/ BPCall
    \/ PInsertBlocking
    \/ BCCall
    \/ CReadBlocking
    \/ Spurious
    \/ Reacquire

SpecBlocking == Init /\ [][NextBlocking]_vars

\* ------------- a producer and a consumer that block, under fair scheduling
\* Thread Producer calls insertSlotBlocking again and again, thread Consumer
\* readSlotBlocking. A waiter may leave its wait without a wakeAll at most
\* MaxSpurious times. Weak fairness on every step of the two threads: a
\* thread that can keep running does run, and a thread that needs mMutex
\* gets it once the mutex stays free.
FPCall ==
    /\ Lock(Producer, "IB")
    /\ UNCHANGED <<spscVars, runVars, fairVars>>

FPInsertBlocking ==
    /\ \E v \in Values : insertSlotBlocking(Producer, MakeSlot(v, mSlotSize))
    /\ UNCHANGED <<spscVars, runVars, fairVars>>

FCCall ==
    /\ Lock(Consumer, "RB")
    /\ UNCHANGED <<spscVars, runVars, fairVars>>

FCReadBlocking ==
    /\ readSlotBlocking(Consumer)
    /\ UNCHANGED <<spscVars, runVars, fairVars>>

FPReacquire ==
    /\ Relock(Producer)
    /\ UNCHANGED <<spscVars, runVars, fairVars>>

FCReacquire ==
    /\ Relock(Consumer)
    /\ UNCHANGED <<spscVars, runVars, fairVars>>

FSpurious ==
    /\ spuriousCount < MaxSpurious
    /\ \E t \in {Producer, Consumer} : SpuriousWakeup(t)
    /\ spuriousCount' = spuriousCount + 1
    /\ UNCHANGED <<spscVars, runVars>>

NextFair ==
    \/ FPCall
    \/ FPInsertBlocking
    \/ FCCall
    \/ FCReadBlocking
    \/ FPReacquire
    \/ FCReacquire
    \/ FSpurious

SpecFair ==
    /\ Init
    /\ [][NextFair]_vars
    /\ WF_vars(FPCall)
    /\ WF_vars(FPInsertBlocking)
    /\ WF_vars(FCCall)
    /\ WF_vars(FCReadBlocking)
    /\ WF_vars(FPReacquire)
    /\ WF_vars(FCReacquire)

\* ================================================================ claims
\* C1: in every reachable state, whatever the interleaving of the four
\* operations by the threads, 0 <= mFullSlots <= mNumSlots.
C1_FullSlotsInRange == 0 <= mFullSlots /\ mFullSlots <= mNumSlots

\* Two inserters parked on a full buffer were woken together by one read,
\* and a third thread has filled the buffer again before they test.
C1_Witness ==
    /\ \E t, u \in Threads : t # u /\ pc[t] = "wokenNotFull" /\ pc[u] = "wokenNotFull"
    /\ mFullSlots = mNumSlots
    /\ event.kind = "stored"

\* C2: whenever no operation is inside its locked body, mWritePosition -
\* mReadPosition is congruent to mFullSlots * mSlotSize modulo mTotalSize.
C2_PositionsCongruent ==
    mMutex = NoThread =>
        (mWritePosition - mReadPosition) % mTotalSize
            = (mFullSlots * mSlotSize) % mTotalSize

\* An overflow recovery on a buffer of three two-byte slots has just returned.
C2_Witness ==
    /\ mMutex = NoThread
    /\ event.kind = "overflow"
    /\ mNumSlots = 3
    /\ mSlotSize = 2
    /\ mReadPosition > mWritePosition
\* C3: with one producer inserting distinct non-zero slots and one consumer
\* reading, in any mix of blocking and non-blocking calls, the producer's
\* slots the consumer is given are slots the producer has inserted, they come
\* in the order of their insertion, and none comes twice.
C3_FifoOrder ==
    /\ \A i \in 1..Len(delivered) :
          \E v \in 1..producedCount : delivered[i] = MakeSlot(v, mSlotSize)
    /\ \A i, j \in 1..Len(delivered) :
          i < j => delivered[i][0] < delivered[j][0]

\* The consumer was given three of the producer's slots, with a gap where an
\* overflow recovery discarded some, and has also read an empty buffer.
C3_Witness ==
    /\ Len(delivered) >= 3
    /\ \E i \in 1..(Len(delivered) - 1) : delivered[i + 1][0] > delivered[i][0] + 1
    /\ event.kind = "underrun"
\* C4 as stated: when N <= mNumSlots distinct slots are inserted while space
\* is available and N reads follow with no insert in between, the k-th read
\* returns the k-th inserted slot, whatever the buffer held before.
C4_ReadsReturnInserts ==
    \A k \in 1..Len(runReads) :
        k <= Len(runIns) => runReads[k] = runIns[k]

\* C4 as amended: with F = mFullSlots slots in the buffer before the first of
\* the N inserts, read number F + k returns the k-th inserted slot (the first
\* F reads return the backlog); the k-th read returns the k-th inserted slot
\* when the buffer was empty before (F = 0).
C4_ReadsReturnInsertsAfterBacklog ==
    \A k \in 1..Len(runReads) :
        k > runBase => runReads[k] = runIns[k - runBase]

\* Two slots were inserted into a buffer that held one, and the three reads
\* that empty it have returned.
C4_Witness ==
    /\ runPhase = "reading"
    /\ runBase = 1
    /\ Len(runIns) = 2
    /\ Len(runReads) = 3
\* C5 as stated: an insertSlotBlocking call that found the buffer full returns
\* only after a successful read (blocking or non-blocking) that came after it
\* last found the buffer full.
C5_InsertWaitsForRead ==
    (event.op = "IB" /\ event.kind = "stored" /\ event.waited)
        => "read" \in event.seen

\* C5 as amended: an insertSlotBlocking call that found the buffer full
\* returns only after a successful read or an overflow recovery (a
\* non-blocking insert that found the buffer full) that came after it last
\* found the buffer full.
C5_InsertWaitsForFreedSlot ==
    (event.op = "IB" /\ event.kind = "stored" /\ event.waited)
        => event.seen \cap {"read", "overflow"} # {}

\* A blocking insert that had parked on a full buffer has stored its slot
\* after an overflow recovery and no read.
C5_Witness ==
    /\ event.op = "IB"
    /\ event.kind = "stored"
    /\ event.waited
    /\ event.seen = {"overflow"}

\* C6: a readSlotBlocking call that found the buffer empty returns only after
\* a successful insert (blocking or non-blocking) that came after it last
\* found the buffer empty, and the slot it returns is one an insert stored
\* and no read has consumed.
C6_ReadWaitsForInsert ==
    (event.op = "RB" /\ event.kind = "read" /\ event.waited)
        => /\ "stored" \in event.seen
           /\ event.fresh
           /\ \E v \in Values : ptrToReadSlot = MakeSlot(v, mSlotSize)

\* A blocking read that had parked on an empty buffer has returned a slot
\* while another reader, woken by the same insert, has yet to test again.
C6_Witness ==
    /\ event.op = "RB"
    /\ event.kind = "read"
    /\ event.waited
    /\ \E u \in Threads : pc[u] = "wokenNotEmpty" /\ "stored" \in seen[u]
    /\ mFullSlots = 0
\* C7: an insertSlotNonBlocking call that finds the buffer full leaves the
\* storage and mWritePosition as they were, and after it mFullSlots =
\* mNumSlots - mNumSlots/2 and mReadPosition is the old one advanced by
\* (mNumSlots/2) * mSlotSize modulo mTotalSize.
C7_OverflowEffect ==
    [][\A t \in Threads :
          (pc[t] = "INB" /\ mFullSlots = mNumSlots /\ pc'[t] = "idle")
              => /\ mRingBuffer' = mRingBuffer
                 /\ mWritePosition' = mWritePosition
                 /\ mFullSlots' = mNumSlots - (mNumSlots \div 2)
                 /\ mReadPosition'
                      = (mReadPosition + (mNumSlots \div 2) * mSlotSize) % mTotalSize]_vars

\* An overflow recovery has just returned on a buffer of three slots whose
\* read position it wrapped around.
C7_Witness ==
    /\ event.kind = "overflow"
    /\ event.op = "INB"
    /\ mNumSlots = 3
    /\ mFullSlots = 2
    /\ mReadPosition = 0

\* C8: for every positive mNumSlots, right after an insertSlotNonBlocking call
\* that found the buffer full, mFullSlots < mNumSlots, so that the next
\* insertSlotNonBlocking stores its slot.
C8_OverflowRestoresHeadroom ==
    [][\A t \in Threads :
          (pc[t] = "INB" /\ mFullSlots = mNumSlots /\ pc'[t] = "idle")
              => mFullSlots' < mNumSlots]_vars

\* C9: a readSlotNonBlocking call that finds the buffer empty gives its caller
\* a slot of zero bytes, and after it every byte of the storage is zero.
C9_UnderrunZeroes ==
    event.kind = "underrun" =>
        /\ ptrToReadSlot = ZeroSlot(mSlotSize)
        /\ \A i \in 0..(mTotalSize - 1) : mRingBuffer[i] = 0
        /\ DOMAIN mRingBuffer = 0..(mTotalSize - 1)

\* A non-blocking read has just found the buffer empty, after a read that
\* returned a slot an insert had stored in a buffer of more than one slot:
\* the storage held non-zero bytes, and so did the caller's buffer.
C9_Witness ==
    /\ event.kind = "underrun"
    /\ event.op = "RNB"
    /\ mNumSlots = 3
    /\ lastReturned # <<>>
    /\ lastReturned # ZeroSlot(mSlotSize)

\* C10: once a read has succeeded, mLastReadSlot is the slot the latest
\* successful read (blocking or non-blocking) gave its caller; inserts,
\* overflow recovery and reads of an empty buffer leave it alone.
C10_LastReadSlotKept ==
    lastReturned # <<>> => mLastReadSlot = lastReturned

\* A read of an empty buffer has zeroed the storage and the caller's buffer
\* after a successful read of a non-zero slot; mLastReadSlot still holds it.
C10_Witness ==
    /\ event.kind = "underrun"
    /\ lastReturned # <<>>
    /\ mLastReadSlot # ZeroSlot(mSlotSize)
    /\ ptrToReadSlot = ZeroSlot(mSlotSize)
    /\ written = {}

\* C11: insertSlotNonBlocking and readSlotNonBlocking never park on a wait
\* condition: in every state where a thread is inside one of them it holds
\* the mutex, its next step can be taken whatever the other threads are
\* doing, and every step it can take is its return; it is never among the
\* waiters of either condition.
C11_NonBlockingNeverParks ==
    \A t \in Threads :
        /\ pc[t] = "INB" =>
              /\ mMutex = t
              /\ ENABLED (\E v \in Values :
                             /\ insertSlotNonBlocking(t, MakeSlot(v, mSlotSize))
                             /\ UNCHANGED <<spscVars, runVars, fairVars>>
                             /\ pc'[t] = "idle")
              /\ ~ ENABLED (\E v \in Values :
                               /\ insertSlotNonBlocking(t, MakeSlot(v, mSlotSize))
                               /\ UNCHANGED <<spscVars, runVars, fairVars>>
                               /\ pc'[t] # "idle")
        /\ pc[t] = "RNB" =>
              /\ mMutex = t
              /\ ENABLED (/\ readSlotNonBlocking(t)
                          /\ UNCHANGED <<spscVars, runVars, fairVars>>
                          /\ pc'[t] = "idle")
              /\ ~ ENABLED (/\ readSlotNonBlocking(t)
                            /\ UNCHANGED <<spscVars, runVars, fairVars>>
                            /\ pc'[t] # "idle")
        /\ (t \in mBufferIsNotFull \cup mBufferIsNotEmpty)
              => (t \in waited /\ pc[t] \in {"waitNotFull", "waitNotEmpty"})
        /\ (t \in waited) => pc[t] \notin {"INB", "RNB", "idle"}

\* A non-blocking read has returned from an empty buffer while a blocking
\* reader stays parked on that same empty buffer.
C11_Witness ==
    /\ event.kind = "underrun"
    /\ \E u \in Threads : pc[u] = "waitNotEmpty"
    /\ mNumSlots > 1

\* C12: mutual exclusion. At no time are two threads inside the locked body
\* of any of the four methods; the thread inside a locked body is the one
\* holding the mutex; a thread parked in a blocking wait, or woken from it
\* and not yet running, does not hold the mutex and cannot take its next
\* step in the method before it has the mutex again.
C12_MutualExclusion ==
    /\ \A t, u \in Threads : (pc[t] \in Ops /\ pc[u] \in Ops) => t = u
    /\ \A t \in Threads : pc[t] \in Ops <=> mMutex = t
    /\ \A t \in Threads :
          pc[t] \in {"waitNotFull", "waitNotEmpty", "wokenNotFull", "wokenNotEmpty"}
              => /\ mMutex # t
                 /\ ~ ENABLED (\E v \in Values :
                                  /\ insertSlotBlocking(t, MakeSlot(v, mSlotSize))
                                  /\ UNCHANGED <<spscVars, runVars, fairVars>>)
                 /\ ~ ENABLED (/\ readSlotBlocking(t)
                               /\ UNCHANGED <<spscVars, runVars, fairVars>>)

\* One thread is back in its blocking call with the mutex after a wait,
\* a second one has been woken and is waiting for the mutex, a third one is
\* still parked.
C12_Witness ==
    \E t, u, w \in Threads :
        /\ pc[t] \in {"IB", "RB"} /\ t \in waited /\ mMutex = t
        /\ pc[u] \in {"wokenNotFull", "wokenNotEmpty"}
        /\ pc[w] \in {"waitNotFull", "waitNotEmpty"}

\* C13: for all positive SlotSize and NumSlots, from the constructor until
\* the first call returns: mReadPosition = 0, mWritePosition =
\* (NumSlots/2)*SlotSize, mFullSlots = NumSlots/2, and mRingBuffer and
\* mLastReadSlot are all zero bytes.
C13_ConstructedState ==
    pristine =>
        /\ mSlotSize > 0 /\ mNumSlots > 0
        /\ mReadPosition = 0
        /\ mWritePosition = (mNumSlots \div 2) * mSlotSize
        /\ mFullSlots = mNumSlots \div 2
        /\ DOMAIN mRingBuffer = 0..(mSlotSize * mNumSlots - 1)
        /\ \A i \in DOMAIN mRingBuffer : mRingBuffer[i] = 0
        /\ DOMAIN mLastReadSlot = 0..(mSlotSize - 1)
        /\ \A i \in DOMAIN mLastReadSlot : mLastReadSlot[i] = 0

\* A buffer of three slots of two bytes, just constructed: no call yet.
C13_Witness ==
    /\ pristine
    /\ \A t \in Threads : pc[t] = "idle"
    /\ mNumSlots = 3
    /\ mSlotSize = 2

\* C14: pre-seed cushion. For every positive NumSlots, a read that is the
\* first call to return after the constructor (so before any insert) does
\* not underrun: readSlotNonBlocking does not take the underrun path and
\* readSlotBlocking does not park, each returns a slot taken from the buffer.
C14_PreSeedCushion ==
    [][\A t \in Threads :
          (pristine /\ pc[t] \in {"RB", "RNB"} /\ pc'[t] # pc[t])
              => (pc'[t] = "idle" /\ event'.kind = "read")]_vars

\* C15: overflow recovery discards only the oldest backlog. Right after an
\* insertSlotNonBlocking call has found the buffer full, the slots still
\* readable are exactly the mNumSlots - mNumSlots/2 most recently stored
\* slots, in the order they were stored; and every read that takes a slot
\* returns the oldest readable slot and leaves the others readable in the
\* same order, so reads with no insert in between return them in insertion
\* order.
C15_OverflowKeepsNewest ==
    [][\A t \in Threads :
          /\ (pc[t] = "INB" /\ mFullSlots = mNumSlots /\ pc'[t] = "idle")
                => LET k == mNumSlots - (mNumSlots \div 2)
                       n == Len(storedLog')
                   IN  /\ n >= k
                       /\ Readable' = SubSeq(storedLog', n - k + 1, n)
          /\ (pc[t] \in {"RB", "RNB"} /\ pc'[t] = "idle" /\ event'.kind = "read")
                => /\ ptrToReadSlot' = Head(Readable)
                   /\ Readable' = Tail(Readable)]_vars

\* Three slots: an insert call was turned away by a full buffer, and the
\* reads since have returned the two newest stored slots, oldest first, and
\* emptied the buffer.
C15_Witness ==
    /\ mNumSlots = 3
    /\ producedCount > Len(storedLog)
    /\ Len(storedLog) >= 2
    /\ Len(returned) >= 2
    /\ SubSeq(returned, Len(returned) - 1, Len(returned))
          = SubSeq(storedLog, Len(storedLog) - 1, Len(storedLog))
    /\ event.kind = "read"
    /\ mFullSlots = 0

\* C16: a readSlotNonBlocking that finds the buffer empty consumes nothing:
\* mReadPosition, mWritePosition, mFullSlots and mLastReadSlot are unchanged
\* (only the caller's output and the storage bytes are written), the caller
\* returns, and no other thread is woken or moved: the waiters of
\* mBufferIsNotFull and of mBufferIsNotEmpty stay parked.
C16_UnderrunConsumesNothing ==
    [][\A t \in Threads :
          (pc[t] = "RNB" /\ mFullSlots = 0 /\ pc'[t] # pc[t])
              => /\ pc'[t] = "idle"
                 /\ mReadPosition' = mReadPosition
                 /\ mWritePosition' = mWritePosition
                 /\ mFullSlots' = mFullSlots
                 /\ mLastReadSlot' = mLastReadSlot
                 /\ mBufferIsNotFull' = mBufferIsNotFull
                 /\ mBufferIsNotEmpty' = mBufferIsNotEmpty
                 /\ \A u \in Threads \ {t} : pc'[u] = pc[u]
                 /\ \A i \in DOMAIN mRingBuffer' : mRingBuffer'[i] = 0
                 /\ \A i \in DOMAIN ptrToReadSlot' : ptrToReadSlot'[i] = 0]_vars

\* An underrun away from position 0, after a read that returned a
\* caller's slot (kept in mLastReadSlot), with a blocking reader parked.
C16_Witness ==
    /\ event.kind = "underrun"
    /\ mReadPosition # 0
    /\ mLastReadSlot # ZeroSlot(mSlotSize)
    /\ mBufferIsNotEmpty # {}

\* C17: every insert that finds space (insertSlotBlocking once its loop
\* test finds the buffer not full, insertSlotNonBlocking with mFullSlots <
\* mNumSlots) returns having stored the caller's slot at the old
\* mWritePosition, set mWritePosition to (mWritePosition + mSlotSize) mod
\* mTotalSize and raised mFullSlots by exactly one, with mReadPosition,
\* mLastReadSlot and every other storage byte unchanged.
C17_InsertEffect ==
    [][(pc[Producer] \in {"IB", "INB"} /\ mFullSlots < mNumSlots
            /\ pc'[Producer] # pc[Producer])
          => /\ pc'[Producer] = "idle"
             /\ \A i \in 0..(mTotalSize - 1) :
                   mRingBuffer'[i] =
                       IF mWritePosition <= i /\ i < mWritePosition + mSlotSize
                       THEN producedCount + 1 + (i - mWritePosition)
                       ELSE mRingBuffer[i]
             /\ DOMAIN mRingBuffer' = DOMAIN mRingBuffer
             /\ mWritePosition' = (mWritePosition + mSlotSize) % mTotalSize
             /\ mFullSlots' = mFullSlots + 1
             /\ mReadPosition' = mReadPosition
             /\ mLastReadSlot' = mLastReadSlot
             /\ mSlotSize' = mSlotSize /\ mNumSlots' = mNumSlots
             /\ mTotalSize' = mTotalSize]_vars

\* A blocking insert that had to wait has stored its two-byte slot in the
\* last of three slots: mWritePosition has wrapped to 0.
C17_Witness ==
    /\ event.kind = "stored" /\ event.op = "IB" /\ event.waited
    /\ mWritePosition = 0
    /\ mNumSlots = 3 /\ mSlotSize = 2
    /\ pc[Producer] = "idle"

\* C18: with one producer calling insertSlotBlocking again and again and one
\* consumer calling readSlotBlocking again and again, on a buffer of any
\* positive number of slots and under weak fairness, the two threads are
\* never both parked on their wait conditions, and every insertSlotBlocking
\* call and every readSlotBlocking call eventually returns.
C18_BlockingProgress ==
    /\ [](~(pc[Producer] = "waitNotFull" /\ pc[Consumer] = "waitNotEmpty"))
    /\ [](pc[Producer] # "idle" => <>(pc[Producer] = "idle"))
    /\ [](pc[Consumer] # "idle" => <>(pc[Consumer] = "idle"))

\* The consumer had parked on the empty buffer; the producer has filled
\* the buffer since and parked on it; the consumer's read has now returned
\* and woken the producer.
C18_Witness ==
    /\ event.kind = "read" /\ event.op = "RB" /\ event.waited
    /\ pc[Consumer] = "idle"
    /\ pc[Producer] = "wokenNotFull"
    /\ mNumSlots = 3

\* C19: no lost wake-up. In every reachable state, under any mix of the
\* four methods by any number of threads, a thread parked on
\* mBufferIsNotFull implies mFullSlots = mNumSlots and a thread parked on
\* mBufferIsNotEmpty implies mFullSlots = 0.
C19_NoLostWakeup ==
    /\ mBufferIsNotFull # {} => mFullSlots = mNumSlots
    /\ mBufferIsNotEmpty # {} => mFullSlots = 0

\* C20: blocking mode is lossless. With one producer using only
\* insertSlotBlocking and one consumer using only readSlotBlocking, the
\* sequence of slots returned to the consumer is always a prefix of:
\* mNumSlots/2 zero slots (the pre-seed) followed by the producer's slots in
\* the order it inserted them. Every insert call that returned has stored
\* its slot, and every slot not yet returned is still in the buffer.
C20_BlockingLossless ==
    LET expected ==
            [k \in 1..(HalfSlots + producedCount) |->
                IF k <= HalfSlots THEN ZeroSlot(mSlotSize)
                ELSE MakeSlot(k - HalfSlots, mSlotSize)]
    IN  /\ Len(returned) <= Len(expected)
        /\ \A k \in 1..Len(returned) : returned[k] = expected[k]
        /\ storedLog = [k \in 1..producedCount |-> MakeSlot(k, mSlotSize)]
        /\ Len(returned) + mFullSlots = Len(expected)

\* Three slots: the consumer has been given the pre-seeded slot and at
\* least four of the producer's, the latest one after it had to wait.
C20_Witness ==
    /\ mNumSlots = 3
    /\ Len(returned) >= 5
    /\ event.kind = "read" /\ event.op = "RB" /\ event.waited
    /\ pc[Consumer] = "idle"

====
